---- MODULE Spec2Model ----
(***************************************************************************)
(* Verification model of the Raydium AMM quoting path of the copy-trade    *)
(* bot: the constant-product swap calculator (raydium/amm_math.rs,         *)
(* RaydiumAmm::swap_with_slippage) and the quote orchestrator              *)
(* (RaydiumAmm::quote in raydium/amm.rs); and of its trade classifier      *)
(* (TradeInfoFromToken::from_update in trade_info.rs).                     *)
(*                                                                         *)
(* A Rust panic (an unwrap of None/Err, an out-of-range slice, panic!) is  *)
(* the result tag "Panic"; an Err returned to the caller is the tag "Err". *)
(*                                                                         *)
(* Every amount of the bounded input sets is far below 2^31, so the        *)
(* u64/U128 overflow branches of the checked operations cannot be taken    *)
(* for these inputs; the failures that remain (division by zero,           *)
(* subtraction below zero) are modelled exactly.                           *)
(*                                                                         *)
(* SpecMath applies swap_with_slippage once to arguments drawn from the    *)
(* bounded sets; SpecQuote runs one call of quote(), one action per await, *)
(* against every answer the registry, the key API and the RPC node can     *)
(* give within the bounds; SpecTrade applies from_update once to a         *)
(* notification drawn from the bounded set.                                *)
(***************************************************************************)
EXTENDS Integers, Sequences, FiniteSets, TLC

VARIABLES
    call,       \* arguments of the swap_with_slippage call under test
    ret,        \* what that call produced
    at,         \* where the running quote() is: the await it is about to make
    swap_input, \* the SwapInput quote() was called with
    calls,      \* the external calls quote() has made, in order
    response,   \* the registry page while it is in scope (amm.rs 64-90)
    pool_id,    \* Option<Pubkey>: the pool chosen so far
    amm_keys,   \* AmmKeys built from the hydrated pool keys
    rsps,       \* what the batch fetch returned
    pricing,    \* the arguments quote() passed to swap_with_slippage, and the result
    raydium_quote, \* the RaydiumAmmQuote value once built
    outcome,    \* how quote() ended
    txn,        \* the SubscribeUpdateTransaction handed to from_update
    trade,      \* what TradeInfoFromToken::from_update produced for it
    slip,       \* a call of min_ / max_amount_with_slippage on a full-width u64
    status_call, \* a status code and what the RaydiumStatus functions gave for it
    queue,      \* the event Queue: header fields head, count, seq_num and buf
    hist,       \* history of the queue: values still queued, operation counts
    op,         \* the last Queue operation and what it returned
    ping_task,  \* first future of connect's try_join!: position, id, result
    stream_task, \* second future of connect's try_join!: position, result
    outbound,   \* the messages sent on subscribe_tx, in order
    last,       \* the last stream message the second future handled
    connect_ret \* what SolGrpcClient::connect has returned, if anything

mathVars == <<call, ret>>

quoteVars == <<at, swap_input, calls, response, pool_id, amm_keys, rsps, pricing,
               raydium_quote, outcome>>

tradeVars == <<txn, trade>>

slipVars == <<slip>>

statusVars == <<status_call>>

queueVars == <<queue, hist, op>>

feedVars == <<ping_task, stream_task, outbound, last, connect_ret>>

vars == <<call, ret, at, swap_input, calls, response, pool_id, amm_keys, rsps,
          pricing, raydium_quote, outcome, txn, trade, slip, status_call, queue,
          hist, op, ping_task, stream_task, outbound, last, connect_ret>>

(***************************************************************************)
(* Bounds of the input sets.                                               *)
(***************************************************************************)
MaxReserve == 5
MaxFee == 3
MaxAmount == 5
MaxPools == 2
MaxQuoteAmount == 2
MaxBalances == 2

(***************************************************************************)
(* Checked arithmetic.  None is the None of an Option<integer>.            *)
(***************************************************************************)
None == -1

TEN_THOUSAND == 10000

\* floor(a * b / d) and the remainder, for d > 0, computed by doubling so
\* that no intermediate value leaves the range of TLC's integers:
\* the U128 product followed by a U128 division.
RECURSIVE MulDivRem(_, _, _)
MulDivRem(a, b, d) ==
    IF b = 0 THEN <<0, 0>>
    ELSE LET h == MulDivRem(a, b \div 2, d)
             t == 2 * h[2] + (b % 2) * a
         IN  <<2 * h[1] + (t \div d), t % d>>

\* U128::checked_mul(a, b) then checked_div(d): None on a zero divisor.
checked_mul_div(a, b, d) ==
    IF d = 0 THEN None ELSE MulDivRem(a, b, d)[1]

\* U128::checked_mul(a, b) then CheckedCeilDiv::checked_ceil_div(d), field .0:
\* the quotient rounded up, None on a zero divisor.
checked_mul_ceil_div(a, b, d) ==
    IF d = 0 THEN None
    ELSE LET qr == MulDivRem(a, b, d)
         IN  IF qr[2] > 0 THEN qr[1] + 1 ELSE qr[1]

checked_sub(a, b) ==
    IF a >= b THEN a - b ELSE None

(***************************************************************************)
(* Calculator (raydium/math.rs).  Coin2PC takes coin in and gives pc out;  *)
(* PC2Coin takes pc in and gives coin out.                                 *)
(***************************************************************************)
reserve_in(pc_vault_amount, coin_vault_amount, swap_direction) ==
    IF swap_direction = "Coin2PC" THEN coin_vault_amount ELSE pc_vault_amount

reserve_out(pc_vault_amount, coin_vault_amount, swap_direction) ==
    IF swap_direction = "Coin2PC" THEN pc_vault_amount ELSE coin_vault_amount

\* out = reserve_out - (reserve_in * reserve_out) / (reserve_in + amount_in)
swap_token_amount_base_in(amount_in, pc_vault_amount, coin_vault_amount, swap_direction) ==
    LET rin  == reserve_in(pc_vault_amount, coin_vault_amount, swap_direction)
        rout == reserve_out(pc_vault_amount, coin_vault_amount, swap_direction)
        k    == checked_mul_div(rin, rout, rin + amount_in)
    IN  IF k = None THEN None ELSE checked_sub(rout, k)

\* the inverse: the input that leaves reserve_in * reserve_out unchanged when
\* amount_out is taken: ceil(reserve_in * reserve_out / (reserve_out - amount_out))
\* - reserve_in
swap_token_amount_base_out(amount_out, pc_vault_amount, coin_vault_amount, swap_direction) ==
    LET rin  == reserve_in(pc_vault_amount, coin_vault_amount, swap_direction)
        rout == reserve_out(pc_vault_amount, coin_vault_amount, swap_direction)
        left == checked_sub(rout, amount_out)
    IN  IF left = None THEN None
        ELSE LET k == checked_mul_ceil_div(rin, rout, left)
             IN  IF k = None THEN None ELSE checked_sub(k, rin)

(***************************************************************************)
(* amm_math.rs                                                             *)
(***************************************************************************)
Panic == [tag |-> "Panic", quote |-> 0, threshold |-> 0]

NotCalled == [tag |-> "NotCalled", quote |-> 0, threshold |-> 0]

Ok(q, t) == [tag |-> "Ok", quote |-> q, threshold |-> t]

\* Mutant of swap_exact_amount: the fee is rounded down and the gross-up
\* divides by the denominator instead of denominator - numerator.
swap_exact_amount_nofee(pc_vault_amount, coin_vault_amount, swap_fee_numerator, swap_fee_denominator, swap_direction, amount_specified, swap_base_in) ==
    IF swap_base_in THEN
        LET swap_fee == checked_mul_div(amount_specified, swap_fee_numerator,
                                        swap_fee_denominator)
        IN  IF swap_fee = None THEN None
            ELSE LET swap_in_after_deduct_fee == checked_sub(amount_specified, swap_fee)
                 IN  IF swap_in_after_deduct_fee = None THEN None
                     ELSE swap_token_amount_base_in(swap_in_after_deduct_fee,
                              pc_vault_amount, coin_vault_amount, swap_direction)
    ELSE
        LET swap_in_before_add_fee ==
                swap_token_amount_base_out(amount_specified, pc_vault_amount,
                                           coin_vault_amount, swap_direction)
        IN  IF swap_in_before_add_fee = None THEN None
            ELSE LET d == checked_sub(swap_fee_denominator, swap_fee_numerator)
                 IN  IF d = None THEN None
                     ELSE checked_mul_ceil_div(swap_in_before_add_fee,
                                               swap_fee_denominator,
                                               swap_fee_denominator)

\* swap_exact_amount: None stands for a panic (every step is unwrapped).
swap_exact_amount(pc_vault_amount, coin_vault_amount, swap_fee_numerator, swap_fee_denominator, swap_direction, amount_specified, swap_base_in) ==
    IF swap_base_in THEN
        LET swap_fee == checked_mul_ceil_div(amount_specified, swap_fee_numerator,
                                             swap_fee_denominator)
        IN  IF swap_fee = None THEN None
            ELSE LET swap_in_after_deduct_fee == checked_sub(amount_specified, swap_fee)
                 IN  IF swap_in_after_deduct_fee = None THEN None
                     ELSE swap_token_amount_base_in(swap_in_after_deduct_fee,
                              pc_vault_amount, coin_vault_amount, swap_direction)
    ELSE
        LET swap_in_before_add_fee ==
                swap_token_amount_base_out(amount_specified, pc_vault_amount,
                                           coin_vault_amount, swap_direction)
        IN  IF swap_in_before_add_fee = None THEN None
            ELSE LET d == checked_sub(swap_fee_denominator, swap_fee_numerator)
                 IN  IF d = None THEN None
                     ELSE checked_mul_ceil_div(swap_in_before_add_fee,
                                               swap_fee_denominator, d)

\* Mutant of max_amount_with_slippage: the bound is rounded up by one.
max_amount_with_slippage_roundup(input_amount, slippage_bps) ==
    (input_amount * (slippage_bps + TEN_THOUSAND)) \div TEN_THOUSAND + 1

\* Mutant of max_amount_with_slippage: the slippage is taken off.
max_amount_with_slippage_minus(input_amount, slippage_bps) ==
    IF slippage_bps > TEN_THOUSAND THEN None
    ELSE (input_amount * (TEN_THOUSAND - slippage_bps)) \div TEN_THOUSAND

max_amount_with_slippage(input_amount, slippage_bps) ==
    (input_amount * (slippage_bps + TEN_THOUSAND)) \div TEN_THOUSAND

\* Mutant of min_amount_with_slippage: the slippage is added.
min_amount_with_slippage_plus(input_amount, slippage_bps) ==
    IF slippage_bps > TEN_THOUSAND THEN None
    ELSE (input_amount * (TEN_THOUSAND + slippage_bps)) \div TEN_THOUSAND

min_amount_with_slippage(input_amount, slippage_bps) ==
    LET f == checked_sub(TEN_THOUSAND, slippage_bps)
    IN  IF f = None THEN None
        ELSE (input_amount * f) \div TEN_THOUSAND

(***************************************************************************)
(* RaydiumAmm::swap_with_slippage (amm.rs)                                 *)
(***************************************************************************)
swap_with_slippage(pc_vault_amount, coin_vault_amount, swap_fee_numerator, swap_fee_denominator, swap_direction, amount_specified, swap_base_in, slippage_bps) ==
    LET quote == swap_exact_amount(pc_vault_amount, coin_vault_amount,
                                   swap_fee_numerator, swap_fee_denominator,
                                   swap_direction, amount_specified, swap_base_in)
    IN  IF quote = None THEN Panic
        ELSE LET other_amount_threshold ==
                     IF swap_base_in
                     THEN min_amount_with_slippage(quote, slippage_bps)
                     ELSE max_amount_with_slippage(quote, slippage_bps)
             IN  IF other_amount_threshold = None THEN Panic
                 ELSE Ok(quote, other_amount_threshold)

(***************************************************************************)
(* RaydiumStatus (amm_types.rs)                                            *)
(***************************************************************************)
RaydiumStatus_from_u64(status) ==
    CASE status = 0 -> "Uninitialized"
      [] status = 1 -> "Initialized"
      [] status = 2 -> "Disabled"
      [] status = 3 -> "WithdrawOnly"
      [] status = 4 -> "LiquidityOnly"
      [] status = 5 -> "OrderBookOnly"
      [] status = 6 -> "SwapOnly"
      [] status = 7 -> "WaitingTrade"
      [] OTHER -> "unreachable"

orderbook_permission(self) ==
    CASE self = "Uninitialized" -> FALSE
      [] self = "Initialized" -> TRUE
      [] self = "Disabled" -> FALSE
      [] self = "WithdrawOnly" -> FALSE
      [] self = "LiquidityOnly" -> FALSE
      [] self = "OrderBookOnly" -> TRUE
      [] self = "SwapOnly" -> FALSE
      [] self = "WaitingTrade" -> FALSE

(***************************************************************************)
(* The values quote() works on.  A Pubkey is a name; the pools of a        *)
(* registry page carry the ids 1, 2, ... in page order and an explicitly   *)
(* given pool has id 0.                                                    *)
(***************************************************************************)
WSOL == "So11111111111111111111111111111111111111112"

RAYDIUM_LIQUIDITY_POOL_V4_PROGRAM_ID == "675kPX9MHTjS2zt1qfr1NYHuzeLXfQM9H24wFSUt1Mp8"

Mints == {WSOL, "mintX", "mintY"}

ProgramIds == {RAYDIUM_LIQUIDITY_POOL_V4_PROGRAM_ID, "otherProgram"}

SwapExecutionMode == {"ExactIn", "ExactOut"}

amount_specified_is_input(mode) == mode = "ExactIn"

SwapInputs ==
    [input_token_mint : Mints, output_token_mint : Mints, slippage_bps : {1000},
     amount : 1..MaxQuoteAmount, mode : SwapExecutionMode, market : {None, 0}]

\* ApiV3PoolsPage<ApiV3StandardPool>: whatever the registry answers.
PoolSummaries == [mint_a : Mints, mint_b : Mints, program_id : ProgramIds]

Pages ==
    UNION { { [i \in 1..n |-> [id |-> i, mint_a |-> f[i].mint_a,
                                mint_b |-> f[i].mint_b,
                                program_id |-> f[i].program_id]]
              : f \in [1..n -> PoolSummaries] }
            : n \in 0..MaxPools }

NoResponse == [tag |-> "none", pools |-> <<>>]

\* Vec<ApiV3StandardPoolKeys> from fetch_pool_keys_by_ids: an error, no entry,
\* or one entry, whose optional fields may be absent.
KeysResponses ==
    [tag : {"err", "empty"}, mint_a : {WSOL}, mint_b : {WSOL}, absent : {"none"}]
    \cup
    { k \in [tag : {"keys"}, mint_a : Mints, mint_b : Mints,
              absent : {"none", "market", "target_orders", "open_orders"}] :
        k.mint_a # k.mint_b }

NoKeys == [amm_coin_mint |-> "none", amm_pc_mint |-> "none"]

\* The seven accounts of the batch, as far as quote() reads them: the pool
\* state fields, the two vault token amounts, the open-orders totals; one
\* entry may be absent (missing = its position, 0 for none) or one buffer
\* malformed (defect).
FeeSchedules == {<<0, 1>>, <<1, 4>>, <<25, 10000>>}

DecimalPairs == {<<6, 9>>, <<9, 6>>}

VaultAmounts == {<<40, 90>>, <<90, 40>>}

OpenOrdersTotals == {<<0, 0>>, <<7, 3>>}

Account(defect, missing, status, fee, dec, vault, oo) ==
    [defect |-> defect, missing |-> missing, status |-> status,
     base_decimal |-> dec[1], quote_decimal |-> dec[2],
     swap_fee_numerator |-> fee[1], swap_fee_denominator |-> fee[2],
     pc_vault_amount |-> vault[1], coin_vault_amount |-> vault[2],
     native_pc_total |-> oo[1], native_coin_total |-> oo[2]]

Defects == {"short_result", "pool_short", "pool_long", "target_short",
            "target_long", "pc_vault_invalid", "coin_vault_invalid"}

FetchResults ==
    { Account("none", 0, st, fee, dec, vault, oo) :
        st \in 0..7, fee \in FeeSchedules, dec \in DecimalPairs,
        vault \in VaultAmounts, oo \in OpenOrdersTotals }
    \cup
    { Account("none", m, st, <<25, 10000>>, <<6, 9>>, <<40, 90>>, <<7, 3>>) :
        m \in 1..7, st \in 0..7 }
    \cup
    { Account(d, 0, 6, <<25, 10000>>, <<6, 9>>, <<40, 90>>, <<7, 3>>) :
        d \in Defects }

NoRsps == Account("not_fetched", 0, 0, <<0, 0>>, <<0, 0>>, <<0, 0>>, <<0, 0>>)

NoPricing ==
    [called |-> FALSE, pc_vault_amount |-> 0, coin_vault_amount |-> 0,
     swap_fee_numerator |-> 0, swap_fee_denominator |-> 0,
     swap_direction |-> "none", amount_specified |-> 0, swap_base_in |-> FALSE,
     slippage_bps |-> 0, result |-> NotCalled]

NoQuote ==
    [built |-> FALSE, market |-> None, input_mint |-> "none",
     output_mint |-> "none", amount |-> 0, other_amount |-> 0,
     other_amount_threshold |-> 0, amount_specified_is_input |-> FALSE,
     input_mint_decimals |-> 0, output_mint_decimals |-> 0]

Running == [tag |-> "Running", kind |-> "none"]

Err(kind) == [tag |-> "Err", kind |-> kind]

Panicked(kind) == [tag |-> "Panic", kind |-> kind]

(***************************************************************************)
(* impl From<LiquidityStateV4> for RaydiumAmmInfo (amm_types.rs)           *)
(***************************************************************************)
RaydiumAmmInfo_from(value) ==
    [status |-> value.status,
     coin_decimals |-> value.quote_decimal,
     pc_decimals |-> value.base_decimal,
     fees |-> [swap_fee_numerator |-> 0,
               swap_fee_denominator |-> value.swap_fee_denominator],
     state_data |-> [need_take_pnl_coin |-> 0, need_take_pnl_pc |-> 0]]

\* Calculator::calc_total_without_take_pnl_no_orderbook (raydium/math.rs): the
\* two vault balances.
calc_total_without_take_pnl_no_orderbook(pc_amount, coin_amount, amm) ==
    <<pc_amount, coin_amount>>

(***************************************************************************)
(* TradeInfoFromToken::from_update (trade_info.rs).  A notification is     *)
(* whatever the protobuf type admits: each optional message may be absent, *)
(* the byte strings may have any length.  Pubkeys and owners are base58    *)
(* names; ui amounts are whole numbers.                                    *)
(***************************************************************************)
BadKey == "not32bytes"

Owners == {"wallet", "pool"}

\* Option<UiTokenAmount>, fields ui_amount and decimals
NoUi == [present |-> FALSE, ui_amount |-> 0, decimals |-> 0]

Ui(amount) == [present |-> TRUE, ui_amount |-> amount, decimals |-> 9]

\* TokenBalance, fields owner, mint, ui_token_amount
BalanceEntries ==
    [owner : Owners, mint : {WSOL, "mintX"}, ui_token_amount : {Ui(5), Ui(7)}]
    \cup {[owner |-> "wallet", mint |-> "mintX", ui_token_amount |-> NoUi],
          [owner |-> "pool", mint |-> "mintY", ui_token_amount |-> Ui(5)]}

BalanceLists == UNION {[1..n -> BalanceEntries] : n \in 0..MaxBalances}

\* pre {target: base = 10, X = 5}, post {target: base = 8, X = 7}
ScenarioPre ==
    <<[owner |-> "wallet", mint |-> WSOL, ui_token_amount |-> Ui(10)],
      [owner |-> "wallet", mint |-> "mintX", ui_token_amount |-> Ui(5)]>>

ScenarioPost ==
    <<[owner |-> "wallet", mint |-> WSOL, ui_token_amount |-> Ui(8)],
      [owner |-> "wallet", mint |-> "mintX", ui_token_amount |-> Ui(7)]>>

\* SubscribeUpdateTransaction: transaction (the SubscribeUpdateTransactionInfo)
\* and, inside it, signature, transaction / message, meta.
KeyLists == {<<>>, <<BadKey>>, <<"wallet">>, <<"wallet", "pool">>, <<"pool", "wallet">>}

WellFormedTxns ==
    [transaction : {"some"}, inner : {"some"}, signature_ok : {TRUE},
     recent_blockhash_ok : {TRUE}, account_keys : {<<"wallet", "pool">>},
     meta : {"some"}, err : {FALSE},
     pre_token_balances : BalanceLists, post_token_balances : BalanceLists]

\* A field of an absent message has its default: without the transaction
\* info nothing else is there, without the message there are no account keys
\* and no blockhash, without the metadata no err and no balances.
AnyHeaderTxns ==
    { t \in [transaction : {"none", "some"}, inner : {"none", "no_message", "some"},
              signature_ok : BOOLEAN, recent_blockhash_ok : BOOLEAN,
              account_keys : KeyLists, meta : {"none", "some"}, err : BOOLEAN,
              pre_token_balances : {<<>>, ScenarioPre},
              post_token_balances : {<<>>, ScenarioPost}] :
        /\ t.transaction = "none" =>
               t.inner = "none" /\ ~t.signature_ok /\ t.meta = "none"
        /\ t.inner # "some" => t.account_keys = <<>> /\ ~t.recent_blockhash_ok
        /\ t.meta = "none" =>
               /\ ~t.err
               /\ t.pre_token_balances = <<>>
               /\ t.post_token_balances = <<>> }

Txns == WellFormedTxns \cup AnyHeaderTxns

NoTxn ==
    [transaction |-> "none", inner |-> "none", signature_ok |-> FALSE,
     recent_blockhash_ok |-> FALSE, account_keys |-> <<>>, meta |-> "none",
     err |-> FALSE, pre_token_balances |-> <<>>, post_token_balances |-> <<>>]

NoTrade ==
    [tag |-> "NotCalled", kind |-> "none", signature |-> "", target |-> "",
     mint |-> "", token_pre_amount |-> 0, token_post_amount |-> 0,
     sol_pre_amount |-> 0, sol_post_amount |-> 0, pool |-> "", decimal |-> 0,
     trade_type |-> "none"]

TradeErr(kind) == [NoTrade EXCEPT !.tag = "Err", !.kind = kind]

TradePanic(kind) == [NoTrade EXCEPT !.tag = "Panic", !.kind = kind]

\* Mutant of owned_by: the owner of a balance is not compared with the target.
owned_by_anyone(balance, target) == TRUE

\* lines 127 and 150: balance.owner == target
owned_by(balance, target) == balance.owner = target

\* Mutant of identify_mint: a mint is taken only from an entry of the pool
\* owner, never from one of the target.
RECURSIVE identify_mint_pool_only(_, _, _, _)
identify_mint_pool_only(balances, target, bonding_curve, mint) ==
    IF balances = <<>> THEN <<bonding_curve, mint>>
    ELSE LET balance == Head(balances)
             owner == balance.owner
             curve == IF owner # target /\ balance.mint # WSOL
                      THEN owner ELSE bonding_curve
             found == IF owner = curve /\ owner # target /\ balance.mint # WSOL
                      THEN balance.mint ELSE mint
         IN  identify_mint_pool_only(Tail(balances), target, curve, found)

\* lines 97-105 (and 107-115): one pass over a balance set, carrying
\* bonding_curve and mint
RECURSIVE identify_mint(_, _, _, _)
identify_mint(balances, target, bonding_curve, mint) ==
    IF balances = <<>> THEN <<bonding_curve, mint>>
    ELSE LET balance == Head(balances)
             owner == balance.owner
             curve == IF owner # target /\ balance.mint # WSOL
                      THEN owner ELSE bonding_curve
             found == IF (owner = target \/ owner = curve) /\ balance.mint # WSOL
                      THEN balance.mint ELSE mint
         IN  identify_mint(Tail(balances), target, curve, found)

\* lines 126-147 (and 149-170): one pass over a balance set, carrying the sol
\* amount, the token amount and mint_decimal; absent is what an absent
\* ui_token_amount leaves in mint_decimal (6 in the first pass, the value
\* carried in the second).
RECURSIVE target_amounts(_, _, _, _, _)
target_amounts(balances, target, mint, acc, first_pass) ==
    IF balances = <<>> THEN acc
    ELSE LET balance == Head(balances)
             ui == balance.ui_token_amount
             amount == IF ui.present THEN ui.ui_amount ELSE 0
             absent == IF first_pass THEN 6 ELSE acc.decimal
             next ==
                 IF ~owned_by(balance, target) THEN acc
                 ELSE IF balance.mint = WSOL THEN [acc EXCEPT !.sol = amount]
                 ELSE IF balance.mint = mint
                 THEN [acc EXCEPT !.token = amount,
                                  !.decimal = IF ui.present THEN ui.decimals ELSE absent]
                 ELSE acc
         IN  target_amounts(Tail(balances), target, mint, next, first_pass)

\* Mutant of trade_type_of: equal amounts are reported as a sale.
trade_type_of_no_unknown(token_pre_amount, token_post_amount) ==
    IF token_post_amount > token_pre_amount THEN "Buy" ELSE "Sell"

\* lines 191-197
trade_type_of(token_pre_amount, token_post_amount) ==
    IF token_post_amount > token_pre_amount THEN "Buy"
    ELSE IF token_pre_amount > token_post_amount THEN "Sell"
    ELSE "Unknown"

\* lines 92-225: the part of from_update that reads the metadata
classify(t, signature, target) ==
    IF t.meta = "none" THEN TradeErr("Transaction meta is None")
    ELSE IF t.err THEN TradeErr("Error in transaction")
    ELSE LET post == identify_mint(t.post_token_balances, target, "", "")
             both == IF post[2] = "" 
                     THEN identify_mint(t.pre_token_balances, target, post[1], post[2])
                     ELSE post
             mint == both[2]
             pre_acc == target_amounts(t.pre_token_balances, target, mint,
                            [sol |-> 0, token |-> 0, decimal |-> 6], TRUE)
             post_acc == target_amounts(t.post_token_balances, target, mint,
                            [sol |-> 0, token |-> 0, decimal |-> pre_acc.decimal], FALSE)
         IN  IF mint = "" THEN TradeErr("mint is None")
             ELSE [tag |-> "Ok", kind |-> "none", signature |-> signature,
                   target |-> target, mint |-> mint,
                   token_pre_amount |-> pre_acc.token,
                   token_post_amount |-> post_acc.token,
                   sol_pre_amount |-> pre_acc.sol, sol_post_amount |-> post_acc.sol,
                   pool |-> both[1], decimal |-> post_acc.decimal,
                   trade_type |-> trade_type_of(pre_acc.token, post_acc.token)]

\* lines 43-226.  Hash::new panics on a slice that is not 32 bytes long,
\* account_keys[0] on an empty list; Pubkey::try_from fails on a key that is
\* not 32 bytes long.
from_update(t) ==
    IF t.transaction = "none" THEN TradeErr("Transaction is None")
    ELSE IF t.inner # "some" THEN TradeErr("Failed to get recent blockhash")
    ELSE IF ~t.recent_blockhash_ok THEN TradePanic("Hash::new")
    ELSE IF t.account_keys = <<>> THEN TradePanic("account_keys[0]")
    ELSE IF t.account_keys[1] = BadKey THEN TradeErr("Failed to parse target pubkey")
    ELSE classify(t, IF t.signature_ok THEN "signature" ELSE "", t.account_keys[1])

TradeIdle == txn = NoTxn /\ trade = NoTrade

(***************************************************************************)
(* What the variables of the other components hold while one component is  *)
(* under test.                                                             *)
(***************************************************************************)
NoSlip ==
    [amount |-> <<>>, slippage_bps |-> 0, min |-> FALSE,
     result |-> [tag |-> "NotCalled", value |-> <<>>]]

NoStatusCall ==
    [status |-> 0, decoded |-> "idle", code |-> -1, asked |-> {}, granted |-> {}]

NoQueue == [head |-> 0, count |-> 0, seq_num |-> 0, buf |-> <<>>]

NoHist == [fifo |-> <<>>, pushes |-> 0, pops |-> 0, reverted |-> 0]

NoOp == [name |-> "none", ok |-> TRUE, arg |-> "none", value |-> "none", items |-> <<>>]

NoPingTask == [pc |-> "idle", id |-> 0]

NoStreamTask == [pc |-> "idle", read |-> 0, kind |-> "none"]

NoMessage ==
    [kind |-> "none", txn |-> NoTxn, buy_token |-> "none", outcome |-> "none",
     sent |-> 0]

SlipIdle == slip = NoSlip

StatusIdle == status_call = NoStatusCall

QueueStateIdle == queue = NoQueue /\ hist = NoHist /\ op = NoOp

FeedIdle ==
    /\ ping_task = NoPingTask
    /\ stream_task = NoStreamTask
    /\ outbound = <<>>
    /\ last = NoMessage
    /\ connect_ret = [tag |-> "NotCalled", kind |-> "none"]

FromUpdate ==
    /\ trade.tag = "NotCalled"
    /\ trade' = from_update(txn)
    /\ UNCHANGED txn

(***************************************************************************)
(* RaydiumAmm::quote (amm.rs 54-280), one action per await.                *)
(***************************************************************************)
\* The condition of the find_map closure, lines 79-84: && binds tighter
\* than ||.
PoolMatches(pool, in) ==
    \/ /\ pool.mint_a = in.input_token_mint
       /\ pool.mint_b = in.output_token_mint
    \/ /\ pool.mint_a = in.output_token_mint
       /\ pool.mint_b = in.input_token_mint
       /\ pool.program_id = RAYDIUM_LIQUIDITY_POOL_V4_PROGRAM_ID

\* response.pools.into_iter().find_map(..): the id of the first match.
find_pool(pools, in) ==
    LET hits == {i \in 1..Len(pools) : PoolMatches(pools[i], in)}
    IN  IF hits = {} THEN None
        ELSE pools[CHOOSE i \in hits : \A j \in hits : i <= j].id

\* Mutant of input_equals_output: the mints are not compared.
input_equals_output_unchecked(in) == FALSE

\* line 55: the condition of the early return
input_equals_output(in) == in.input_token_mint = in.output_token_mint

\* Mutant of first_await: the registry is searched even for an explicit pool.
first_await_always_search(market) == "search"

\* lines 62-63 and 93: pool_id.is_none() decides whether the registry search
\* is made; an explicit pool goes straight to the key hydration.
first_await(market) == IF market = None THEN "search" ELSE "hydrate"

\* lines 54-63
QuoteStart ==
    /\ at = "start"
    /\ IF input_equals_output(swap_input)
       THEN /\ outcome' = Err("input")
            /\ at' = "returned"
            /\ UNCHANGED pool_id
       ELSE /\ pool_id' = swap_input.market
            /\ at' = first_await(swap_input.market)
            /\ UNCHANGED outcome
    /\ UNCHANGED <<swap_input, calls, response, amm_keys, rsps, pricing, raydium_quote>>

\* lines 64-95: the registry search, the selection, the resolution failure
RegistrySearch ==
    /\ at = "search"
    /\ calls' = Append(calls, "fetch_pool_by_mints")
    /\ \/ /\ outcome' = Err("registry")
          /\ at' = "returned"
          /\ UNCHANGED <<response, pool_id>>
       \/ \E page \in Pages :
             /\ response' = [tag |-> "page", pools |-> page]
             /\ pool_id' = find_pool(page, swap_input)
             /\ IF find_pool(page, swap_input) = None
                THEN outcome' = Err("resolution") /\ at' = "returned"
                ELSE outcome' = outcome /\ at' = "hydrate"
    /\ UNCHANGED <<swap_input, amm_keys, rsps, pricing, raydium_quote>>

\* lines 97-108: key hydration and AmmKeys / MarketKeys::try_from
Hydrate ==
    /\ at = "hydrate"
    /\ calls' = Append(calls, "fetch_pool_keys_by_ids")
    /\ response' = NoResponse
    /\ \E keys \in KeysResponses :
          IF keys.tag = "err"
          THEN outcome' = Err("hydrate") /\ at' = "returned" /\ UNCHANGED amm_keys
          ELSE IF keys.tag = "empty" \/ keys.absent # "none"
          THEN outcome' = Err("keys") /\ at' = "returned" /\ UNCHANGED amm_keys
          ELSE /\ amm_keys' = [amm_coin_mint |-> keys.mint_a,
                               amm_pc_mint |-> keys.mint_b]
               /\ at' = "fetch"
               /\ UNCHANGED outcome
    /\ UNCHANGED <<swap_input, pool_id, rsps, pricing, raydium_quote>>

\* lines 113-123: the one batched fetch of the seven accounts
BatchFetch ==
    /\ at = "fetch"
    /\ calls' = Append(calls, "get_multiple_account_data")
    /\ \/ /\ outcome' = Err("fetch")
          /\ at' = "returned"
          /\ UNCHANGED rsps
       \/ \E r \in FetchResults :
             /\ rsps' = r
             /\ at' = "decode"
             /\ UNCHANGED outcome
    /\ UNCHANGED <<swap_input, response, pool_id, amm_keys, pricing, raydium_quote>>

\* lines 231-251: the direction and the call of swap_with_slippage
PricingOf(in, keys, r) ==
    LET amm == RaydiumAmmInfo_from(r)
        reserves == calc_total_without_take_pnl_no_orderbook(
                        r.pc_vault_amount, r.coin_vault_amount, amm)
        coin_to_pc == /\ in.input_token_mint = keys.amm_coin_mint
                      /\ in.output_token_mint = keys.amm_pc_mint
        direction == IF coin_to_pc THEN "Coin2PC" ELSE "PC2Coin"
    IN  [called |-> TRUE,
         pc_vault_amount |-> reserves[1], coin_vault_amount |-> reserves[2],
         swap_fee_numerator |-> amm.fees.swap_fee_numerator,
         swap_fee_denominator |-> amm.fees.swap_fee_denominator,
         swap_direction |-> direction, amount_specified |-> in.amount,
         swap_base_in |-> amount_specified_is_input(in.mode),
         slippage_bps |-> in.slippage_bps,
         result |-> swap_with_slippage(reserves[1], reserves[2],
                        amm.fees.swap_fee_numerator, amm.fees.swap_fee_denominator,
                        direction, in.amount, amount_specified_is_input(in.mode),
                        in.slippage_bps)]

\* lines 257-277
QuoteOf(in, id, r, p) ==
    LET amm == RaydiumAmmInfo_from(r)
        coin_to_pc == p.swap_direction = "Coin2PC"
    IN  [built |-> TRUE, market |-> id, input_mint |-> in.input_token_mint,
         output_mint |-> in.output_token_mint, amount |-> in.amount,
         other_amount |-> p.result.quote,
         other_amount_threshold |-> p.result.threshold,
         amount_specified_is_input |-> amount_specified_is_input(in.mode),
         input_mint_decimals |->
             (IF coin_to_pc THEN amm.coin_decimals ELSE amm.pc_decimals) % 256,
         output_mint_decimals |->
             (IF coin_to_pc THEN amm.pc_decimals ELSE amm.coin_decimals) % 256]

\* lines 125-161: what stops quote() before it computes the reserves
DecodeFailure(r) ==
    IF r.defect = "short_result" THEN Panicked("array_ref")
    ELSE IF r.missing = 1 THEN Panicked("account_unwrap")
    ELSE IF r.defect \in {"pool_short", "pool_long"} THEN Panicked("pool_layout")
    ELSE IF r.missing = 2 THEN Panicked("account_unwrap")
    ELSE IF r.defect \in {"target_short", "target_long"} THEN Err("layout")
    ELSE IF r.missing = 3 THEN Panicked("account_unwrap")
    ELSE IF r.defect = "pc_vault_invalid" THEN Panicked("vault_unpack")
    ELSE IF r.missing = 4 THEN Panicked("account_unwrap")
    ELSE IF r.defect = "coin_vault_invalid" THEN Panicked("vault_unpack")
    ELSE Running

\* lines 125-280: everything after the batch fetch, which has no await in it
DecodeAndPrice ==
    /\ at = "decode"
    /\ IF DecodeFailure(rsps) # Running
       THEN /\ outcome' = DecodeFailure(rsps)
            /\ at' = IF DecodeFailure(rsps).tag = "Err" THEN "returned" ELSE "panicked"
            /\ UNCHANGED <<pricing, raydium_quote>>
       ELSE LET p == PricingOf(swap_input, amm_keys, rsps)
            IN  /\ pricing' = p
                /\ at' = "panicked"
                /\ IF p.result.tag = "Panic"
                   THEN outcome' = Panicked("pricing") /\ UNCHANGED raydium_quote
                   ELSE /\ raydium_quote' = QuoteOf(swap_input, pool_id, rsps, p)
                        /\ outcome' = Panicked("line_278")
    /\ UNCHANGED <<swap_input, calls, response, pool_id, amm_keys, rsps>>

QuoteIdle ==
    /\ calls = <<>>
    /\ response = NoResponse
    /\ pool_id = None
    /\ amm_keys = NoKeys
    /\ rsps = NoRsps
    /\ pricing = NoPricing
    /\ raydium_quote = NoQuote
    /\ outcome = Running

NoCall ==
    [pc_vault_amount |-> 0, coin_vault_amount |-> 0, swap_fee_numerator |-> 0,
     swap_fee_denominator |-> 0, swap_direction |-> "none",
     amount_specified |-> 0, swap_base_in |-> FALSE, slippage_bps |-> 0]

QuoteInit ==
    /\ at = "start"
    /\ swap_input \in SwapInputs
    /\ QuoteIdle
    /\ call = NoCall
    /\ ret = NotCalled
    /\ TradeIdle
    /\ SlipIdle /\ StatusIdle /\ QueueStateIdle /\ FeedIdle

QuoteNext ==
    \/ QuoteStart /\ UNCHANGED <<mathVars, tradeVars, slipVars, statusVars, queueVars, feedVars>>
    \/ RegistrySearch /\ UNCHANGED <<mathVars, tradeVars, slipVars, statusVars, queueVars, feedVars>>
    \/ Hydrate /\ UNCHANGED <<mathVars, tradeVars, slipVars, statusVars, queueVars, feedVars>>
    \/ BatchFetch /\ UNCHANGED <<mathVars, tradeVars, slipVars, statusVars, queueVars, feedVars>>
    \/ DecodeAndPrice /\ UNCHANGED <<mathVars, tradeVars, slipVars, statusVars, queueVars, feedVars>>

SpecQuote == QuoteInit /\ [][QuoteNext]_vars

(***************************************************************************)
(* The calculator under test: one call of swap_with_slippage on arguments  *)
(* drawn from the bounded sets, and the pricing scenario of the            *)
(* specification (reserves 1_000_000 / 2_000_000, fee 25 / 10000).         *)
(***************************************************************************)
SwapDirection == {"Coin2PC", "PC2Coin"}

SlippageValues == {0, 100, 2500, TEN_THOUSAND, TEN_THOUSAND + 1}

SmallArgs ==
    [pc_vault_amount : 0..MaxReserve, coin_vault_amount : 0..MaxReserve,
     swap_fee_numerator : 0..MaxFee, swap_fee_denominator : 0..MaxFee,
     swap_direction : SwapDirection, amount_specified : 0..MaxAmount,
     swap_base_in : BOOLEAN, slippage_bps : SlippageValues]

ScenarioArgs ==
    { [pc_vault_amount |-> 2000000, coin_vault_amount |-> 1000000,
       swap_fee_numerator |-> 25, swap_fee_denominator |-> 10000,
       swap_direction |-> "Coin2PC", amount_specified |-> 10000,
       swap_base_in |-> b, slippage_bps |-> 100] : b \in BOOLEAN }
    \cup
    { [pc_vault_amount |-> 1000000, coin_vault_amount |-> 2000000,
       swap_fee_numerator |-> 25, swap_fee_denominator |-> 10000,
       swap_direction |-> "PC2Coin", amount_specified |-> 10000,
       swap_base_in |-> b, slippage_bps |-> 100] : b \in BOOLEAN }

MathInit ==
    /\ call \in SmallArgs \cup ScenarioArgs
    /\ ret = NotCalled
    /\ at = "idle"
    /\ swap_input = [input_token_mint |-> WSOL, output_token_mint |-> WSOL,
                     slippage_bps |-> 0, amount |-> 0, mode |-> "ExactIn",
                     market |-> None]
    /\ QuoteIdle
    /\ TradeIdle
    /\ SlipIdle /\ StatusIdle /\ QueueStateIdle /\ FeedIdle

CallSwapWithSlippage ==
    /\ ret.tag = "NotCalled"
    /\ ret' = swap_with_slippage(call.pc_vault_amount, call.coin_vault_amount,
                                 call.swap_fee_numerator, call.swap_fee_denominator,
                                 call.swap_direction, call.amount_specified,
                                 call.swap_base_in, call.slippage_bps)
    /\ UNCHANGED call

MathNext ==
    CallSwapWithSlippage
    /\ UNCHANGED <<quoteVars, tradeVars, slipVars, statusVars, queueVars, feedVars>>

SpecMath == MathInit /\ [][MathNext]_vars

(***************************************************************************)
(* The classifier under test: one call of from_update on a notification    *)
(* drawn from the bounded set.                                             *)
(***************************************************************************)
TradeInit ==
    /\ txn \in Txns
    /\ trade = NoTrade
    /\ call = NoCall
    /\ ret = NotCalled
    /\ at = "idle"
    /\ swap_input = [input_token_mint |-> WSOL, output_token_mint |-> WSOL,
                     slippage_bps |-> 0, amount |-> 0, mode |-> "ExactIn",
                     market |-> None]
    /\ QuoteIdle
    /\ SlipIdle /\ StatusIdle /\ QueueStateIdle /\ FeedIdle

TradeNext ==
    FromUpdate
    /\ UNCHANGED <<mathVars, quoteVars, slipVars, statusVars, queueVars, feedVars>>

SpecTrade == TradeInit /\ [][TradeNext]_vars

(***************************************************************************)
(* Claims about the calculator (checked under SpecMath).                   *)
(***************************************************************************)
Returned(base_in) == ret.tag = "Ok" /\ call.swap_base_in = base_in

CallReserveIn ==
    reserve_in(call.pc_vault_amount, call.coin_vault_amount, call.swap_direction)

CallReserveOut ==
    reserve_out(call.pc_vault_amount, call.coin_vault_amount, call.swap_direction)

\* C1: every exact-input call that returns gives
\* out = reserve_out - (reserve_in * reserve_out) / (reserve_in + amount - fee)
\* with fee = ceil(amount * fee_numerator / fee_denominator), and the threshold
\* out * (10000 - slippage_bps) / 10000; the pricing scenario (reserves
\* 1_000_000 / 2_000_000, fee 25 / 10000, amount 10_000, 100 bps) gives fee 25,
\* amount after fee 9975, out 19753 and threshold 19555.
C1_ExactInputFormula ==
    /\ (Returned(TRUE) /\ call \in SmallArgs) =>
          LET amount == call.amount_specified
              den    == call.swap_fee_denominator
              fee    == (amount * call.swap_fee_numerator + den - 1) \div den
              after  == amount - fee
              out    == CallReserveOut
                          - (CallReserveIn * CallReserveOut) \div (CallReserveIn + after)
          IN  /\ den > 0
              /\ after >= 0
              /\ CallReserveIn + after > 0
              /\ ret.quote = out
              /\ ret.threshold = (out * (10000 - call.slippage_bps)) \div 10000
    /\ (ret.tag # "NotCalled" /\ call \in ScenarioArgs /\ call.swap_base_in) =>
          /\ checked_mul_ceil_div(call.amount_specified, call.swap_fee_numerator,
                                  call.swap_fee_denominator) = 25
          /\ checked_sub(call.amount_specified, 25) = 9975
          /\ ret = Ok(19753, 19555)

C1_Witness ==
    /\ Returned(TRUE)
    /\ call \in ScenarioArgs
    /\ ret.quote = 19753
    /\ ret.threshold = 19555

\* C2: every exact-output call that returns gives
\* input_before_fee = ceil(input_after_fee * fee_denominator
\*                         / (fee_denominator - fee_numerator)),
\* input_after_fee being the inverse constant-product input, and the threshold
\* input * (10000 + slippage_bps) / 10000.
C2_ExactOutputFormula ==
    Returned(FALSE) =>
        LET inv  == swap_token_amount_base_out(call.amount_specified,
                        call.pc_vault_amount, call.coin_vault_amount,
                        call.swap_direction)
            d    == call.swap_fee_denominator - call.swap_fee_numerator
            gross == (inv * call.swap_fee_denominator + d - 1) \div d
        IN  /\ inv # None
            /\ d > 0
            /\ ret.quote = gross
            /\ ret.threshold = (gross * (10000 + call.slippage_bps)) \div 10000

C2_Witness ==
    /\ Returned(FALSE)
    /\ call.swap_fee_numerator > 0
    /\ call.slippage_bps = 2500
    /\ ret.quote > call.amount_specified
    /\ ret.threshold > ret.quote

\* C3: for every exact-input call that returns a pair, the threshold is at
\* most the quoted amount.
C3_ExactInputThresholdBelow ==
    Returned(TRUE) => ret.threshold <= ret.quote

C3_Witness ==
    /\ Returned(TRUE)
    /\ call.slippage_bps \in 1..TEN_THOUSAND
    /\ ret.threshold < ret.quote

\* C4: for every exact-output call that returns a pair, the threshold is at
\* least the quoted amount.
C4_ExactOutputThresholdAbove ==
    Returned(FALSE) => ret.threshold >= ret.quote

C4_Witness ==
    /\ Returned(FALSE)
    /\ call.slippage_bps > 0
    /\ ret.threshold > ret.quote
    /\ call \in SmallArgs

\* C5: with slippage_bps = 0 every call that returns a pair, in either mode,
\* has a threshold equal to the quoted amount.
C5_ZeroSlippageExact ==
    (ret.tag = "Ok" /\ call.slippage_bps = 0) => ret.threshold = ret.quote

C5_Witness ==
    /\ ret.tag = "Ok"
    /\ call.slippage_bps = 0
    /\ ret.quote > 0
    /\ ret.threshold = ret.quote

\* C14: in swap_exact_amount and swap_with_slippage every arithmetic failure
\* (fee_denominator = 0 for exact-input, fee_denominator = fee_numerator for
\* exact-output, a fee larger than the amount, slippage_bps above 10000 for
\* exact-input) is returned to the caller as an error value: no call panics.
C14_ArithmeticFailuresReturned ==
    ret.tag # "NotCalled" =>
        /\ ret.tag # "Panic"
        /\ (call.swap_base_in /\ call.swap_fee_denominator = 0) => ret.tag = "Err"
        /\ (~call.swap_base_in
              /\ call.swap_fee_denominator = call.swap_fee_numerator) =>
               ret.tag = "Err"
        /\ (call.swap_base_in /\ call.swap_fee_denominator > 0
              /\ call.swap_fee_numerator > call.swap_fee_denominator
              /\ call.amount_specified > 0) =>
               ret.tag = "Err"
        /\ (call.swap_base_in /\ call.slippage_bps > TEN_THOUSAND) => ret.tag = "Err"

(***************************************************************************)
(* Claims about quote() (checked under SpecQuote).                         *)
(***************************************************************************)
\* C7: when the decoded pool status grants order-book permission the reserves
\* passed to pricing are the vault balances plus the totals resting in the
\* open-orders account; otherwise they are exactly the two vault balances.
C7_ReservesOrderBookPolicy ==
    pricing.called =>
        IF orderbook_permission(RaydiumStatus_from_u64(rsps.status))
        THEN /\ pricing.pc_vault_amount = rsps.pc_vault_amount + rsps.native_pc_total
             /\ pricing.coin_vault_amount
                    = rsps.coin_vault_amount + rsps.native_coin_total
        ELSE /\ pricing.pc_vault_amount = rsps.pc_vault_amount
             /\ pricing.coin_vault_amount = rsps.coin_vault_amount

\* C8: the fee numerator and denominator passed to swap_with_slippage are the
\* swap_fee_numerator and swap_fee_denominator of the fetched pool state.
C8_FeeScheduleOfPool ==
    pricing.called =>
        /\ pricing.swap_fee_numerator = rsps.swap_fee_numerator
        /\ pricing.swap_fee_denominator = rsps.swap_fee_denominator

\* A pool qualifies when its asset pair is the requested pair in either order
\* and its program id is the protocol's.
Qualifies(pool, in) ==
    /\ \/ pool.mint_a = in.input_token_mint /\ pool.mint_b = in.output_token_mint
       \/ pool.mint_a = in.output_token_mint /\ pool.mint_b = in.input_token_mint
    /\ pool.program_id = RAYDIUM_LIQUIDITY_POOL_V4_PROGRAM_ID

QualifyingRanks == {i \in 1..Len(response.pools) : Qualifies(response.pools[i], swap_input)}

\* C9: with no explicit pool, the pool selected from the registry page is the
\* first (highest-ranked) one that qualifies; a pool of another program is
\* never selected.
C9_FirstQualifyingPoolSelected ==
    (response.tag = "page" /\ QualifyingRanks # {}) =>
        /\ pool_id # None
        /\ pool_id \in QualifyingRanks
        /\ \A j \in QualifyingRanks : pool_id <= j

\* C10: with no explicit pool and no qualifying pool in the registry page,
\* quote returns a resolution failure having made no call but the search.
C10_NoQualifyingPoolFails ==
    (response.tag = "page" /\ QualifyingRanks = {}) =>
        /\ at = "returned"
        /\ outcome = Err("resolution")
        /\ calls = <<"fetch_pool_by_mints">>

\* C11: when the input mint equals the output mint, quote returns the input
\* error before any external call, with or without an explicit pool.
C11_SameMintRejectedFirst ==
    (swap_input.input_token_mint = swap_input.output_token_mint /\ at # "start") =>
        /\ at = "returned"
        /\ outcome = Err("input")
        /\ calls = <<>>

C11_Witness ==
    /\ swap_input.input_token_mint = swap_input.output_token_mint
    /\ swap_input.market # None
    /\ at = "returned"
    /\ outcome = Err("input")
    /\ calls = <<>>

\* C12: when one of the seven entries of the batch result is absent, or the
\* result has fewer than seven entries, quote returns a fetch failure: it
\* neither panics nor builds a quote.
C12_MissingAccountIsFetchFailure ==
    ((rsps.missing \in 1..7 \/ rsps.defect = "short_result") /\ at # "decode") =>
        /\ at = "returned"
        /\ outcome = Err("fetch")
        /\ ~raydium_quote.built

\* C13: a pool-state or target-orders buffer shorter or longer than the
\* record makes quote return a layout error: no panic, nothing priced from it.
C13_WrongLengthIsLayoutError ==
    (/\ rsps.defect \in {"pool_short", "pool_long", "target_short", "target_long"}
     /\ at # "decode") =>
        /\ at = "returned"
        /\ outcome = Err("layout")
        /\ ~pricing.called

\* C15: no execution of quote ends in a panic; once the quote value is built,
\* quote returns to its caller.
C15_QuoteNeverPanics ==
    /\ at # "panicked"
    /\ outcome.tag # "Panic"
    /\ raydium_quote.built => at = "returned"

\* C16: whenever quote reaches pricing, Coin2PC is used only for input = coin
\* mint and output = pc mint of the pool, and PC2Coin only for input = pc mint
\* and output = coin mint, also for an explicitly given pool.
C16_DirectionAgreesWithPoolMints ==
    pricing.called =>
        /\ pricing.swap_direction = "Coin2PC" =>
               /\ swap_input.input_token_mint = amm_keys.amm_coin_mint
               /\ swap_input.output_token_mint = amm_keys.amm_pc_mint
        /\ pricing.swap_direction = "PC2Coin" =>
               /\ swap_input.input_token_mint = amm_keys.amm_pc_mint
               /\ swap_input.output_token_mint = amm_keys.amm_coin_mint

\* C17: in the quote value built, input_mint_decimals and
\* output_mint_decimals are the decimals the pool account records for the
\* input and the output mint (coin = mint_a / base, pc = mint_b / quote), in
\* both directions.
C17_QuoteDecimalsOfMints ==
    raydium_quote.built =>
        /\ (/\ swap_input.input_token_mint = amm_keys.amm_coin_mint
            /\ swap_input.output_token_mint = amm_keys.amm_pc_mint) =>
               /\ raydium_quote.input_mint_decimals = rsps.base_decimal
               /\ raydium_quote.output_mint_decimals = rsps.quote_decimal
        /\ (/\ swap_input.input_token_mint = amm_keys.amm_pc_mint
            /\ swap_input.output_token_mint = amm_keys.amm_coin_mint) =>
               /\ raydium_quote.input_mint_decimals = rsps.quote_decimal
               /\ raydium_quote.output_mint_decimals = rsps.base_decimal

CallOrder ==
    <<"fetch_pool_by_mints", "fetch_pool_keys_by_ids", "get_multiple_account_data">>

ExpectedCalls ==
    IF swap_input.market = None THEN CallOrder ELSE SubSeq(CallOrder, 2, 3)

IsPrefix(s, t) == Len(s) <= Len(t) /\ s = SubSeq(t, 1, Len(s))

CallsInOrder ==
    /\ IsPrefix(calls, ExpectedCalls)
    /\ (at = "decode" \/ pricing.called \/ rsps # NoRsps) => calls = ExpectedCalls

NoCallAfterFailure == outcome # Running => calls' = calls

\* C18: within one call of quote the external calls are, in this order and at
\* most once each, the registry search (not made for an explicit pool), the
\* key hydration and one batched fetch; decoding and pricing come only after
\* that fetch has returned, and no call follows a failure.
C18_CallsInFixedOrderOnce ==
    [](CallsInOrder) /\ [][NoCallAfterFailure]_vars

C18_Witness ==
    /\ swap_input.market = None
    /\ pricing.called
    /\ calls = CallOrder

(***************************************************************************)
(* Claims about the trade classifier (checked under SpecTrade).            *)
(***************************************************************************)
NonBaseMints(balances) ==
    {balances[i].mint : i \in 1..Len(balances)} \ {WSOL}

\* C19: from_update returns a parse error, and neither a record nor a panic,
\* when the notification has no transaction body, when the transaction has no
\* metadata, when the metadata has err set, and when neither balance set
\* holds a mint other than WSOL.
C19_ParseErrorCases ==
    (/\ trade.tag # "NotCalled"
     /\ \/ txn.transaction = "none"
        \/ txn.meta = "none"
        \/ txn.err
        \/ NonBaseMints(txn.post_token_balances)
             \cup NonBaseMints(txn.pre_token_balances) = {}) =>
        trade.tag = "Err"

\* The ui amounts of the entries of a balance set owned by owner for mint (an
\* entry without ui_token_amount counts 0); {0} when there is no such entry.
OwnedAmounts(balances, owner, mint) ==
    LET hits == {i \in 1..Len(balances) :
                    balances[i].owner = owner /\ balances[i].mint = mint}
    IN  IF hits = {} THEN {0}
        ELSE {IF balances[i].ui_token_amount.present
              THEN balances[i].ui_token_amount.ui_amount ELSE 0 : i \in hits}

\* C20: in a successful classification target is the first account key, and
\* sol_pre / sol_post, token_pre / token_post are the target-owned balances of
\* WSOL and of the traded mint in the pre- and post-balance sets, 0 without
\* such an entry; pre {target: base = 10, X = 5}, post {target: base = 8,
\* X = 7} gives mint X, 10, 8, 5, 7 and Buy.
C20_TargetBalancesReported ==
    trade.tag = "Ok" =>
        /\ trade.target = txn.account_keys[1]
        /\ trade.sol_pre_amount
               \in OwnedAmounts(txn.pre_token_balances, trade.target, WSOL)
        /\ trade.sol_post_amount
               \in OwnedAmounts(txn.post_token_balances, trade.target, WSOL)
        /\ trade.token_pre_amount
               \in OwnedAmounts(txn.pre_token_balances, trade.target, trade.mint)
        /\ trade.token_post_amount
               \in OwnedAmounts(txn.post_token_balances, trade.target, trade.mint)
        /\ (/\ txn.pre_token_balances = ScenarioPre
            /\ txn.post_token_balances = ScenarioPost
            /\ trade.target = "wallet") =>
               /\ trade.mint = "mintX"
               /\ trade.sol_pre_amount = 10
               /\ trade.sol_post_amount = 8
               /\ trade.token_pre_amount = 5
               /\ trade.token_post_amount = 7
               /\ trade.trade_type = "Buy"

C20_Witness ==
    /\ trade.tag = "Ok"
    /\ txn.pre_token_balances = ScenarioPre
    /\ txn.post_token_balances = ScenarioPost
    /\ trade.target = "wallet"
    /\ trade.mint = "mintX"
    /\ trade.trade_type = "Buy"
    /\ trade.sol_pre_amount = 10
    /\ trade.token_post_amount = 7

\* C21: in a successful classification the direction is Buy exactly when the
\* target's post-amount of the traded mint exceeds its pre-amount, Sell
\* exactly when it is less, Unknown exactly when the two are equal.
C21_DirectionFromAmounts ==
    trade.tag = "Ok" =>
        /\ trade.token_pre_amount
               \in OwnedAmounts(txn.pre_token_balances, trade.target, trade.mint)
        /\ trade.token_post_amount
               \in OwnedAmounts(txn.post_token_balances, trade.target, trade.mint)
        /\ trade.trade_type \in {"Buy", "Sell", "Unknown"}
        /\ trade.trade_type = "Buy" <=> trade.token_post_amount > trade.token_pre_amount
        /\ trade.trade_type = "Sell" <=> trade.token_post_amount < trade.token_pre_amount
        /\ trade.trade_type = "Unknown" <=> trade.token_post_amount = trade.token_pre_amount

C21_Witness ==
    /\ trade.tag = "Ok"
    /\ trade.trade_type = "Unknown"
    /\ trade.token_pre_amount = 5
    /\ trade.token_post_amount = 5

\* A full exit: no mint but WSOL in the post-balance set, one other mint in
\* the pre-balance set, held there by the target with a positive amount.
FullExit ==
    /\ Len(txn.account_keys) > 0
    /\ NonBaseMints(txn.post_token_balances) = {}
    /\ \E m \in NonBaseMints(txn.pre_token_balances) :
          /\ NonBaseMints(txn.pre_token_balances) = {m}
          /\ 0 \notin OwnedAmounts(txn.pre_token_balances, txn.account_keys[1], m)

\* C22: the traded mint is a mint of the post-balance set whenever that set
\* has an entry with a mint other than WSOL (such an entry is owned by the
\* target or by the pool owner); only otherwise is it taken from the
\* pre-balance set; a full exit is classified with the mint of the
\* pre-balance set, token_post = 0 and Sell.
C22_MintFromPostThenPre ==
    /\ trade.tag = "Ok" =>
          IF NonBaseMints(txn.post_token_balances) # {}
          THEN trade.mint \in NonBaseMints(txn.post_token_balances)
          ELSE trade.mint \in NonBaseMints(txn.pre_token_balances)
    /\ ((trade.tag = "Ok" \/ trade = TradeErr("mint is None")) /\ FullExit) =>
          /\ trade.tag = "Ok"
          /\ NonBaseMints(txn.pre_token_balances) = {trade.mint}
          /\ trade.token_post_amount = 0
          /\ trade.token_pre_amount > 0
          /\ trade.trade_type = "Sell"

C22_Witness ==
    /\ trade.tag = "Ok"
    /\ FullExit
    /\ trade.mint = "mintX"
    /\ trade.token_pre_amount = 7
    /\ trade.token_post_amount = 0
    /\ trade.trade_type = "Sell"
    /\ txn.post_token_balances # <<>>

(***************************************************************************)
(* max_ / min_amount_with_slippage at the full width of u64                *)
(* (amm_math.rs 55-69).  A u64 is four 16-bit limbs, least significant     *)
(* first, so that amounts up to 2^64 - 1 and the overflow of               *)
(* u64::checked_mul are exact.                                             *)
(***************************************************************************)
LimbBase == 65536

U64Limbs == 4

\* x * k + carry for a small k: one limb longer than x
RECURSIVE MulSmall(_, _, _)
MulSmall(x, k, carry) ==
    IF x = <<>> THEN <<carry>>
    ELSE LET t == Head(x) * k + carry
         IN  <<t % LimbBase>> \o MulSmall(Tail(x), k, t \div LimbBase)

\* <<x \div d, x % d>> for a small d > 0
RECURSIVE DivSmall(_, _)
DivSmall(x, d) ==
    IF x = <<>> THEN <<<<>>, 0>>
    ELSE LET hi == DivSmall(Tail(x), d)
             t  == hi[2] * LimbBase + Head(x)
         IN  <<<<t \div d>> \o hi[1], t % d>>

NoneU64 == [some |-> FALSE, v |-> <<>>]

SomeU64(x) == [some |-> TRUE, v |-> x]

\* u64::checked_mul by a small factor: None when the product needs a fifth limb
u64_checked_mul(x, k) ==
    LET p == MulSmall(x, k, 0)
    IN  IF p[U64Limbs + 1] # 0 THEN NoneU64 ELSE SomeU64(SubSeq(p, 1, U64Limbs))

\* lines 55-61; slippage_bps + 10000 does not overflow for the values used
max_amount_with_slippage_u64(input_amount, slippage_bps) ==
    LET p == u64_checked_mul(input_amount, slippage_bps + TEN_THOUSAND)
    IN  IF ~p.some THEN [tag |-> "Panic", value |-> <<>>]
        ELSE [tag |-> "Ok", value |-> DivSmall(p.v, TEN_THOUSAND)[1]]

\* lines 63-69
min_amount_with_slippage_u64(input_amount, slippage_bps) ==
    IF slippage_bps > TEN_THOUSAND THEN [tag |-> "Panic", value |-> <<>>]
    ELSE LET p == u64_checked_mul(input_amount, TEN_THOUSAND - slippage_bps)
         IN  IF ~p.some THEN [tag |-> "Panic", value |-> <<>>]
             ELSE [tag |-> "Ok", value |-> DivSmall(p.v, TEN_THOUSAND)[1]]

\* 1844674407370955 = (2^64 - 1) \div 10000, and the next amount
U64MaxOverTenThousand == <<4299, 47815, 36280, 6>>

U64MaxOverTenThousandPlusOne == <<4300, 47815, 36280, 6>>

U64Amounts ==
    [1..U64Limbs -> {0, 1, LimbBase - 1}]
    \cup {U64MaxOverTenThousand, U64MaxOverTenThousandPlusOne}

SlipInit ==
    /\ slip \in [amount : U64Amounts, slippage_bps : {0, 100, TEN_THOUSAND},
                 min : BOOLEAN, result : {[tag |-> "NotCalled", value |-> <<>>]}]
    /\ call = NoCall
    /\ ret = NotCalled
    /\ at = "idle"
    /\ swap_input = [input_token_mint |-> WSOL, output_token_mint |-> WSOL,
                     slippage_bps |-> 0, amount |-> 0, mode |-> "ExactIn",
                     market |-> None]
    /\ QuoteIdle
    /\ TradeIdle /\ StatusIdle /\ QueueStateIdle /\ FeedIdle

CallSlippage ==
    /\ slip.result.tag = "NotCalled"
    /\ slip' = [slip EXCEPT !.result =
                   IF slip.min
                   THEN min_amount_with_slippage_u64(slip.amount, slip.slippage_bps)
                   ELSE max_amount_with_slippage_u64(slip.amount, slip.slippage_bps)]

SlipNext ==
    CallSlippage
    /\ UNCHANGED <<mathVars, quoteVars, tradeVars, statusVars, queueVars, feedVars>>

SpecSlippage == SlipInit /\ [][SlipNext]_vars

\* amount * factor \div 10000 with the product kept wide: five limbs
WideBound(amount, factor) == DivSmall(MulSmall(amount, factor, 0), TEN_THOUSAND)[1]

\* C24: for every u64 amount and slippage_bps in 0..10000 the product is
\* formed in arithmetic wide enough not to overflow, so each function gives
\* amount * (10000 -/+ slippage_bps) / 10000 whenever that value fits in
\* 64 bits, and fails only when it does not.
C24_SlippageProductIsWide ==
    slip.result.tag # "NotCalled" =>
        LET factor == IF slip.min THEN TEN_THOUSAND - slip.slippage_bps
                      ELSE TEN_THOUSAND + slip.slippage_bps
            wide == WideBound(slip.amount, factor)
        IN  IF wide[U64Limbs + 1] = 0
            THEN slip.result = [tag |-> "Ok", value |-> SubSeq(wide, 1, U64Limbs)]
            ELSE slip.result.tag # "Ok"

(***************************************************************************)
(* RaydiumStatus (amm_types.rs 198-299): a status code is decoded, encoded *)
(* again and asked for its permissions.                                    *)
(***************************************************************************)
MaxStatusCode == 40

into_u64(self) ==
    CASE self = "Uninitialized" -> 0
      [] self = "Initialized" -> 1
      [] self = "Disabled" -> 2
      [] self = "WithdrawOnly" -> 3
      [] self = "LiquidityOnly" -> 4
      [] self = "OrderBookOnly" -> 5
      [] self = "SwapOnly" -> 6
      [] self = "WaitingTrade" -> 7

deposit_permission(self) ==
    CASE self = "Uninitialized" -> FALSE
      [] self = "Initialized" -> TRUE
      [] self = "Disabled" -> FALSE
      [] self = "WithdrawOnly" -> FALSE
      [] self = "LiquidityOnly" -> TRUE
      [] self = "OrderBookOnly" -> TRUE
      [] self = "SwapOnly" -> TRUE
      [] self = "WaitingTrade" -> TRUE

withdraw_permission(self) ==
    CASE self = "Uninitialized" -> FALSE
      [] self = "Initialized" -> TRUE
      [] self = "Disabled" -> FALSE
      [] self = "WithdrawOnly" -> TRUE
      [] self = "LiquidityOnly" -> TRUE
      [] self = "OrderBookOnly" -> TRUE
      [] self = "SwapOnly" -> TRUE
      [] self = "WaitingTrade" -> TRUE

\* Mutant of swap_permission: swap is allowed wherever deposit is.
swap_permission_as_deposit(self) == deposit_permission(self)

swap_permission(self) ==
    CASE self = "Uninitialized" -> FALSE
      [] self = "Initialized" -> TRUE
      [] self = "Disabled" -> FALSE
      [] self = "WithdrawOnly" -> FALSE
      [] self = "LiquidityOnly" -> FALSE
      [] self = "OrderBookOnly" -> FALSE
      [] self = "SwapOnly" -> TRUE
      [] self = "WaitingTrade" -> TRUE

Permissions == {"deposit", "withdraw", "swap", "orderbook"}

permission(self, which) ==
    CASE which = "deposit" -> deposit_permission(self)
      [] which = "withdraw" -> withdraw_permission(self)
      [] which = "swap" -> swap_permission(self)
      [] which = "orderbook" -> orderbook_permission(self)

StatusInit ==
    /\ status_call \in [status : 0..MaxStatusCode, decoded : {"none"}, code : {None},
                        asked : {{}}, granted : {{}}]
    /\ call = NoCall
    /\ ret = NotCalled
    /\ at = "idle"
    /\ swap_input = [input_token_mint |-> WSOL, output_token_mint |-> WSOL,
                     slippage_bps |-> 0, amount |-> 0, mode |-> "ExactIn",
                     market |-> None]
    /\ QuoteIdle
    /\ TradeIdle /\ SlipIdle /\ QueueStateIdle /\ FeedIdle

\* from_u64: unreachable!() panics for a code above 7
FromU64 ==
    /\ status_call.decoded = "none"
    /\ status_call' =
         [status_call EXCEPT !.decoded =
             IF RaydiumStatus_from_u64(status_call.status) = "unreachable"
             THEN "Panic" ELSE RaydiumStatus_from_u64(status_call.status)]

IntoU64 ==
    /\ status_call.decoded \notin {"none", "Panic"}
    /\ status_call.code = None
    /\ status_call' = [status_call EXCEPT !.code = into_u64(status_call.decoded)]

AskPermission ==
    /\ status_call.decoded \notin {"none", "Panic"}
    /\ \E which \in Permissions \ status_call.asked :
          status_call' =
             [status_call EXCEPT
                !.asked = @ \cup {which},
                !.granted = IF permission(status_call.decoded, which)
                            THEN @ \cup {which} ELSE @]

StatusNext ==
    /\ \/ FromU64
       \/ IntoU64
       \/ AskPermission
    /\ UNCHANGED <<mathVars, quoteVars, tradeVars, slipVars, queueVars, feedVars>>

SpecStatus == StatusInit /\ [][StatusNext]_vars

\* The permissions the claim gives each status.
ClaimedPermissions(self) ==
    CASE self = "Uninitialized" -> {}
      [] self = "Initialized" -> {"deposit", "withdraw", "swap", "orderbook"}
      [] self = "Disabled" -> {}
      [] self = "WithdrawOnly" -> {"withdraw"}
      [] self = "LiquidityOnly" -> {"deposit", "withdraw"}
      [] self = "OrderBookOnly" -> {"deposit", "withdraw", "orderbook"}
      [] self = "SwapOnly" -> {"deposit", "withdraw", "swap"}
      [] self = "WaitingTrade" -> {"deposit", "withdraw", "swap"}

\* C25: the codes 0..7, and only they, are statuses; from_u64 followed by
\* into_u64 gives the code back, and each status has the permissions the
\* claim lists for it.
C25_StatusCodesAndPermissions ==
    /\ status_call.decoded = "Panic" => status_call.status > 7
    /\ status_call.decoded \notin {"none", "Panic"} =>
          /\ status_call.status \in 0..7
          /\ status_call.code # None => status_call.code = status_call.status
          /\ status_call.granted
                = ClaimedPermissions(status_call.decoded) \cap status_call.asked

C25_Witness ==
    /\ status_call.decoded = "OrderBookOnly"
    /\ status_call.code = 5
    /\ status_call.asked = Permissions
    /\ status_call.granted = {"deposit", "withdraw", "orderbook"}

(***************************************************************************)
(* Queue<H> over EventQueueHeader (serum_types.rs 110-215, 398-419).  The  *)
(* header fields head, count, seq_num and the item slice buf; buf[i] of    *)
(* the code is buf[i + 1] here.                                            *)
(***************************************************************************)
MaxCapacity == 3

MaxQueueOps == 5

Items == {"a", "b"}

len(q) == q.count

full(q) == q.count = Len(q.buf)

empty(q) == q.count = 0

\* Mutant of push_back: a full queue overwrites its oldest slot.
push_back_overwrite(q, value) ==
    LET slot == (q.head + q.count) % Len(q.buf)
    IN  [queue |-> [q EXCEPT !.buf[slot + 1] = value,
                             !.count = IF full(q) THEN q.count ELSE q.count + 1,
                             !.seq_num = q.seq_num + 1],
         ok |-> TRUE, value |-> "none"]

\* lines 136-148: Err(value) on a full queue
push_back(q, value) ==
    IF full(q) THEN [queue |-> q, ok |-> FALSE, value |-> value]
    ELSE LET slot == (q.head + q.count) % Len(q.buf)
         IN  [queue |-> [q EXCEPT !.buf[slot + 1] = value,
                                  !.count = q.count + 1,
                                  !.seq_num = q.seq_num + 1],
              ok |-> TRUE, value |-> "none"]

\* lines 151-156: None on an empty queue
peek_front(q) ==
    IF empty(q) THEN [ok |-> FALSE, value |-> "none"]
    ELSE [ok |-> TRUE, value |-> q.buf[q.head + 1]]

\* Mutant of pop_front: the newest item is taken and head stays.
pop_front_newest(q) ==
    IF empty(q) THEN [queue |-> q, ok |-> FALSE, value |-> "none"]
    ELSE [queue |-> [q EXCEPT !.count = q.count - 1],
          ok |-> TRUE,
          value |-> q.buf[((q.head + q.count - 1) % Len(q.buf)) + 1]]

\* lines 167-180: Err(()) on an empty queue
pop_front(q) ==
    IF empty(q) THEN [queue |-> q, ok |-> FALSE, value |-> "none"]
    ELSE [queue |-> [q EXCEPT !.count = q.count - 1,
                              !.head = (q.head + 1) % Len(q.buf)],
          ok |-> TRUE, value |-> q.buf[q.head + 1]]

\* Mutant of revert_pushes: the event id is not taken back.
revert_pushes_keep_seq(q, desired_len) == [q EXCEPT !.count = desired_len]

\* lines 183-188, for desired_len <= count
revert_pushes(q, desired_len) ==
    LET len_diff == q.count - desired_len
    IN  [q EXCEPT !.count = desired_len, !.seq_num = q.seq_num - len_diff]

\* lines 190-215: the items QueueIterator::next yields until it returns None
iter(q) ==
    [index \in 1..len(q) |-> q.buf[((q.head + (index - 1)) % Len(q.buf)) + 1]]

\* Queue::new over an empty queue: any capacity, any head below it, the
\* slots holding whatever was there.
QueueInit ==
    /\ \E capacity \in 1..MaxCapacity : \E head \in 0..(capacity - 1) :
          queue = [head |-> head, count |-> 0, seq_num |-> 0,
                   buf |-> [i \in 1..capacity |-> "stale"]]
    /\ hist = NoHist
    /\ op = NoOp
    /\ call = NoCall
    /\ ret = NotCalled
    /\ at = "idle"
    /\ swap_input = [input_token_mint |-> WSOL, output_token_mint |-> WSOL,
                     slippage_bps |-> 0, amount |-> 0, mode |-> "ExactIn",
                     market |-> None]
    /\ QuoteIdle
    /\ TradeIdle /\ SlipIdle /\ StatusIdle /\ FeedIdle

OpsLeft == hist.pushes + hist.pops + hist.reverted < MaxQueueOps

PushBack ==
    /\ OpsLeft
    /\ \E value \in Items :
          LET r == push_back(queue, value)
          IN  /\ queue' = r.queue
              /\ op' = [name |-> "push_back", ok |-> r.ok, arg |-> value,
                        value |-> r.value, items |-> <<>>]
              /\ hist' = IF r.ok
                         THEN [hist EXCEPT !.fifo = Append(@, value), !.pushes = @ + 1]
                         ELSE hist

PopFront ==
    /\ OpsLeft
    /\ LET r == pop_front(queue)
       IN  /\ queue' = r.queue
           /\ op' = [name |-> "pop_front", ok |-> r.ok, arg |-> "none",
                     value |-> r.value, items |-> <<>>]
           /\ hist' = IF r.ok
                      THEN [hist EXCEPT !.fifo = Tail(@), !.pops = @ + 1]
                      ELSE hist

PeekFront ==
    /\ op' = [name |-> "peek_front", ok |-> peek_front(queue).ok, arg |-> "none",
              value |-> peek_front(queue).value, items |-> <<>>]
    /\ UNCHANGED <<queue, hist>>

Iter ==
    /\ op' = [name |-> "iter", ok |-> TRUE, arg |-> "none", value |-> "none",
              items |-> iter(queue)]
    /\ UNCHANGED <<queue, hist>>

RevertPushes ==
    /\ OpsLeft
    /\ \E desired_len \in 0..queue.count :
          /\ queue' = revert_pushes(queue, desired_len)
          /\ op' = [name |-> "revert_pushes", ok |-> TRUE, arg |-> "none",
                    value |-> "none", items |-> <<>>]
          /\ hist' = [hist EXCEPT !.fifo = SubSeq(@, 1, desired_len),
                                  !.reverted = @ + (queue.count - desired_len)]

QueueNext ==
    /\ \/ PushBack
       \/ PopFront
       \/ PeekFront
       \/ Iter
       \/ RevertPushes
    /\ UNCHANGED <<mathVars, quoteVars, tradeVars, slipVars, statusVars, feedVars>>

SpecQueue == QueueInit /\ [][QueueNext]_vars

FailedOpLeavesQueue ==
    /\ (op'.name = "push_back" /\ full(queue)) =>
          /\ ~op'.ok
          /\ op'.value = op'.arg
    /\ (op'.name = "pop_front" /\ empty(queue)) => ~op'.ok
    /\ (op'.name \in {"push_back", "pop_front"} /\ ~op'.ok) => queue' = queue

\* C26: push_back on a full queue fails and returns the rejected value,
\* pop_front on an empty queue fails; neither changes head, count, seq_num
\* or the buffer.
C26_FullAndEmptyRejected == [][FailedOpLeavesQueue]_vars

C26_Witness ==
    /\ op.name = "push_back"
    /\ ~op.ok
    /\ op.value = op.arg
    /\ queue.count = Len(queue.buf)
    /\ hist.pops > 0

FrontIsOldest ==
    (op'.name \in {"pop_front", "peek_front"} /\ hist.fifo # <<>>) =>
        /\ op'.ok
        /\ op'.value = Head(hist.fifo)
        /\ op'.name = "peek_front" => queue' = queue
        /\ op'.name = "pop_front" => iter(queue') = Tail(hist.fifo)

\* C27: the queue is first-in first-out across wrap-around: pop_front
\* returns the oldest value not yet popped, peek_front returns it without
\* removing it, iter yields len() items, oldest to newest.
C27_FifoAcrossWrap ==
    /\ [](/\ iter(queue) = hist.fifo
          /\ Len(iter(queue)) = len(queue)
          /\ op.name = "iter" => op.items = hist.fifo)
    /\ [][FrontIsOldest]_vars

C27_Witness ==
    /\ op.name = "pop_front"
    /\ op.ok
    /\ hist.reverted = 0
    /\ queue.count >= 2
    /\ queue.head + queue.count > Len(queue.buf)
    /\ iter(queue) = <<"a", "b">>

\* C28: from an empty queue with head < capacity, push_back, pop_front and
\* revert_pushes(n), n <= count, keep 0 <= count <= capacity and
\* 0 <= head < capacity; count = pushes - pops - reverted pushes,
\* seq_num = pushes - reverted pushes, and pop_front leaves seq_num alone.
C28_QueueCounters ==
    /\ [](/\ 0 <= queue.count /\ queue.count <= Len(queue.buf)
          /\ 0 <= queue.head /\ queue.head < Len(queue.buf)
          /\ queue.count = hist.pushes - hist.pops - hist.reverted
          /\ queue.seq_num = hist.pushes - hist.reverted)
    /\ [][op'.name = "pop_front" => queue'.seq_num = queue.seq_num]_vars

C28_Witness ==
    /\ hist.reverted > 0
    /\ hist.pops > 0
    /\ hist.pushes >= 3
    /\ queue.count > 0
    /\ queue.seq_num = hist.pushes - hist.reverted

(***************************************************************************)
(* SolGrpcClient::connect (client.rs 28-100): the ping future and the      *)
(* stream future joined by try_join!, and decode_instruction (decoder.rs   *)
(* 8-51) run on each transaction notification.                             *)
(***************************************************************************)
MaxPings == 3

MaxMessages == 2

\* Mutant of next_ping_id: the id is not advanced.
next_ping_id_same(id) == id

\* client.rs 54: id += 1
next_ping_id(id) == id + 1

SubscribeMsg == [kind |-> "subscribe", id |-> 0]

PingMsg(id) == [kind |-> "ping", id |-> id]

FeedBalanceLists == {<<>>} \cup {<<b>> : b \in BalanceEntries}

FeedTxns ==
    AnyHeaderTxns \cup
        [transaction : {"some"}, inner : {"some"}, signature_ok : {TRUE},
         recent_blockhash_ok : {TRUE}, account_keys : {<<"wallet", "pool">>},
         meta : {"some"}, err : {FALSE},
         pre_token_balances : FeedBalanceLists,
         post_token_balances : FeedBalanceLists]

\* decoder.rs 8-51: unwrap of the transaction info (16), from_update with ?
\* (20), unwrap of buy_token's result (24)
decode_instruction(t, buy_token) ==
    IF t.transaction = "none" THEN "Panic"
    ELSE IF t.meta = "none" THEN "Ok"
    ELSE LET trade_info == from_update(t)
         IN  IF trade_info.tag = "Panic" THEN "Panic"
             ELSE IF trade_info.tag = "Err" THEN "Err"
             ELSE IF trade_info.trade_type = "Buy"
                  THEN (IF buy_token = "Ok" THEN "Ok" ELSE "Panic")
                  ELSE "Ok"

\* buy_token is called only where decode_instruction reaches line 24
reaches_buy_token(t) ==
    /\ t.transaction = "some"
    /\ t.meta = "some"
    /\ from_update(t).tag = "Ok"
    /\ from_update(t).trade_type = "Buy"

\* What stream.next().await can give: the end of the stream, an error
\* status, an update without update_oneof, or an update of some variant.
StreamItems ==
    {[NoMessage EXCEPT !.kind = kind] :
        kind \in {"end", "status", "empty", "Slot", "Ping", "Pong", "Account"}}
    \cup
    {m \in [kind : {"Transaction"}, txn : FeedTxns,
            buy_token : {"none", "Ok", "Err", "Panic"},
            outcome : {"none"}, sent : {0}] :
        (m.buy_token # "none") <=> reaches_buy_token(m.txn)}

\* client.rs 70-94: one turn of the while-let loop on the item read; the
\* stream task's next position and the kind of its error or panic
on_message(m) ==
    IF m.kind = "end" THEN [pc |-> "ok", kind |-> "none"]
    ELSE IF m.kind = "status" THEN [pc |-> "err", kind |-> "stream"]
    ELSE IF m.kind = "empty" THEN [pc |-> "panic", kind |-> "valid message"]
    ELSE IF m.kind = "Transaction"
         THEN (IF decode_instruction(m.txn, m.buy_token) = "Panic"
               THEN [pc |-> "panic", kind |-> "decode_instruction"]
               ELSE [pc |-> "loop", kind |-> "none"])
    ELSE IF m.kind \in {"Slot", "Ping", "Pong"} THEN [pc |-> "loop", kind |-> "none"]
    ELSE [pc |-> "err", kind |-> "unexpected"]

\* Mutant of try_join: the first future to finish decides.
try_join_first_done(ping, stream) ==
    IF stream.pc = "panic" THEN [tag |-> "Panic", kind |-> stream.kind]
    ELSE IF ping.pc = "err" THEN [tag |-> "Err", kind |-> "send"]
    ELSE IF stream.pc = "err" THEN [tag |-> "Err", kind |-> stream.kind]
    ELSE IF ping.pc = "ok" \/ stream.pc = "ok" THEN [tag |-> "Ok", kind |-> "none"]
    ELSE [tag |-> "Running", kind |-> "subscribed"]

\* client.rs 36-99: try_join! returns the first Err, Ok once both futures
\* are Ok; a panic in either future unwinds through connect
try_join(ping, stream) ==
    IF stream.pc = "panic" THEN [tag |-> "Panic", kind |-> stream.kind]
    ELSE IF ping.pc = "err" THEN [tag |-> "Err", kind |-> "send"]
    ELSE IF stream.pc = "err" THEN [tag |-> "Err", kind |-> stream.kind]
    ELSE IF ping.pc = "ok" /\ stream.pc = "ok" THEN [tag |-> "Ok", kind |-> "none"]
    ELSE [tag |-> "Running", kind |-> "subscribed"]

FeedInit ==
    /\ ping_task = NoPingTask
    /\ stream_task = NoStreamTask
    /\ outbound = <<>>
    /\ last = NoMessage
    /\ connect_ret = [tag |-> "Running", kind |-> "connecting"]
    /\ call = NoCall
    /\ ret = NotCalled
    /\ at = "idle"
    /\ swap_input = [input_token_mint |-> WSOL, output_token_mint |-> WSOL,
                     slippage_bps |-> 0, amount |-> 0, mode |-> "ExactIn",
                     market |-> None]
    /\ QuoteIdle
    /\ TradeIdle /\ SlipIdle /\ StatusIdle /\ QueueStateIdle

\* lines 29-34: build, tls_config, connect, subscribe, each with ?
Establish ==
    /\ connect_ret = [tag |-> "Running", kind |-> "connecting"]
    /\ \E ok \in BOOLEAN :
          IF ok
          THEN /\ ping_task' = [pc |-> "subscribe", id |-> 0]
               /\ stream_task' = [pc |-> "lists", read |-> 0, kind |-> "none"]
               /\ connect_ret' = [tag |-> "Running", kind |-> "subscribed"]
          ELSE /\ connect_ret' = [tag |-> "Err", kind |-> "connect"]
               /\ UNCHANGED <<ping_task, stream_task>>
    /\ UNCHANGED <<outbound, last>>

Joined == connect_ret = [tag |-> "Running", kind |-> "subscribed"]

\* lines 39-49
PingSubscribe ==
    /\ Joined
    /\ ping_task.pc = "subscribe"
    /\ \E sent \in BOOLEAN :
          /\ ping_task' = [ping_task EXCEPT !.pc = IF sent THEN "loop" ELSE "err"]
          /\ outbound' = IF sent THEN Append(outbound, SubscribeMsg) ELSE outbound
    /\ connect_ret' = try_join(ping_task', stream_task)
    /\ UNCHANGED <<stream_task, last>>

\* lines 52-61
PingTick ==
    /\ Joined
    /\ ping_task.pc = "loop"
    /\ ping_task.id < MaxPings
    /\ \E sent \in BOOLEAN :
          LET id == next_ping_id(ping_task.id)
          IN  /\ ping_task' = [pc |-> IF sent THEN "loop" ELSE "err", id |-> id]
              /\ outbound' = IF sent THEN Append(outbound, PingMsg(id)) ELSE outbound
    /\ connect_ret' = try_join(ping_task', stream_task)
    /\ UNCHANGED <<stream_task, last>>

\* lines 67-68
LoadLists ==
    /\ Joined
    /\ stream_task.pc = "lists"
    /\ \E target_list \in BOOLEAN, token_list \in BOOLEAN :
          stream_task' = IF target_list /\ token_list
                         THEN [stream_task EXCEPT !.pc = "loop"]
                         ELSE [stream_task EXCEPT !.pc = "err", !.kind = "lists"]
    /\ connect_ret' = try_join(ping_task, stream_task')
    /\ UNCHANGED <<ping_task, outbound, last>>

\* lines 70-95
ReadMessage ==
    /\ Joined
    /\ stream_task.pc = "loop"
    /\ stream_task.read < MaxMessages
    /\ \E m \in StreamItems :
          /\ last' = [m EXCEPT !.sent = Len(outbound),
                               !.outcome = IF m.kind = "Transaction"
                                           THEN decode_instruction(m.txn, m.buy_token)
                                           ELSE "none"]
          /\ stream_task' = [pc |-> on_message(m).pc, read |-> stream_task.read + 1,
                             kind |-> on_message(m).kind]
    /\ connect_ret' = try_join(ping_task, stream_task')
    /\ UNCHANGED <<ping_task, outbound>>

FeedNext ==
    /\ \/ Establish
       \/ PingSubscribe
       \/ PingTick
       \/ LoadLists
       \/ ReadMessage
    /\ UNCHANGED <<mathVars, quoteVars, tradeVars, slipVars, statusVars, queueVars>>

SpecFeed == FeedInit /\ [][FeedNext]_vars

\* C23: whatever a transaction notification holds and whatever the action
\* taken on it returns, the loop of connect goes on to read the next stream
\* message: decode_instruction neither ends the loop nor panics.
C23_BadTransactionKeepsStream ==
    last.kind = "Transaction" => stream_task.pc = "loop"

OutboundInOrder ==
    \A i \in 1..Len(outbound) :
        outbound[i] = IF i = 1 THEN SubscribeMsg ELSE PingMsg(i - 1)

TasksApart ==
    /\ (stream_task' # stream_task \/ last' # last) =>
           (outbound' = outbound /\ ping_task' = ping_task)
    /\ (ping_task' # ping_task \/ outbound' # outbound) =>
           (stream_task' = stream_task /\ last' = last)

\* C29: on the outbound channel the subscription request comes first and
\* every later message is a ping, with ids 1, 2, 3, ...; no step of the
\* stream task sends or touches the ping task's state, and no step of the
\* ping task touches the stream task's.
C29_OutboundSubscribeThenPings ==
    /\ [](OutboundInOrder)
    /\ [][Joined => TasksApart]_vars

C29_Witness ==
    /\ Len(outbound) >= 3
    /\ outbound[3] = PingMsg(2)
    /\ stream_task.read >= 1

\* C30: connect never returns Ok; the ping task ends only on a failed send;
\* once subscribed connect returns only an error of a failed send, a stream
\* error, an allow-list load error or an unexpected update variant; after
\* the stream has ended normally connect keeps running, the ping task in
\* its loop, until a send fails.
C30_ConnectNeverSucceeds ==
    /\ connect_ret.tag # "Ok"
    /\ ping_task.pc \in {"idle", "subscribe", "loop", "err"}
    /\ ping_task.pc = "err" => connect_ret = [tag |-> "Err", kind |-> "send"]
    /\ (connect_ret.tag = "Err" /\ ping_task # NoPingTask) =>
           connect_ret.kind \in {"send", "stream", "lists", "unexpected"}
    /\ stream_task.pc = "ok" =>
           \/ Joined /\ ping_task.pc \in {"subscribe", "loop"}
           \/ connect_ret = [tag |-> "Err", kind |-> "send"] /\ ping_task.pc = "err"

C30_Witness ==
    /\ stream_task.pc = "ok"
    /\ last.kind = "end"
    /\ Len(outbound) > last.sent + 1
    /\ connect_ret = [tag |-> "Err", kind |-> "send"]

====
